---- MODULE Spec2Model ----
(***************************************************************************)
(* A model of streamlit_wachat_app.py: the transcript parser               *)
(* (parse_chat_text, DATE_TIME_PATTERNS, parse_datetime), the attachment   *)
(* linker (link_attachments) and the script's load-conversations loop      *)
(* (load_zip and the merge by chat_id).                                    *)
(*                                                                         *)
(* Text is a sequence of characters; a character is a one-letter string,   *)
(* or a name for a character that has no ASCII letter: "NL" (line feed),   *)
(* "TAB", "NBSP" (U+00A0), "NNBSP" (U+202F), "LRM" (U+200E), "ENDASH",     *)
(* "EMDASH", "eacute" and "Eacute".                                        *)
(***************************************************************************)
EXTENDS Integers, Sequences, FiniteSets, TLC

\* ------------------------------------------------------------ characters

DigitSeq == <<"0", "1", "2", "3", "4", "5", "6", "7", "8", "9">>

UpperSeq == <<"A", "B", "C", "D", "E", "F", "G", "H", "I", "J", "K", "L", "M",
              "N", "O", "P", "Q", "R", "S", "T", "U", "V", "W", "X", "Y", "Z",
              "Eacute">>

LowerSeq == <<"a", "b", "c", "d", "e", "f", "g", "h", "i", "j", "k", "l", "m",
              "n", "o", "p", "q", "r", "s", "t", "u", "v", "w", "x", "y", "z",
              "eacute">>

Range(f) == {f[i] : i \in DOMAIN f}

\* the sequence a function on 1..n is, with its elements computed once
ToSeq(f) == <<>> \o f

Digit == Range(DigitSeq)

\* [A-Za-z], ASCII only
AsciiLetter == {UpperSeq[i] : i \in 1..26} \cup {LowerSeq[i] : i \in 1..26}

\* what \s matches and what str.strip() removes
WS == {" ", "TAB", "NL", "NBSP", "NNBSP"}

DigitVal(c) == (CHOOSE i \in 1..10 : DigitSeq[i] = c) - 1

\* int() of a run of digits
RECURSIVE NumVal(_)
NumVal(ds) ==
    IF ds = <<>> THEN 0
    ELSE 10 * NumVal(SubSeq(ds, 1, Len(ds) - 1)) + DigitVal(ds[Len(ds)])

\* str.lower() and str.upper(), one character
LowerChar(c) ==
    IF \E i \in DOMAIN UpperSeq : UpperSeq[i] = c
    THEN LowerSeq[CHOOSE i \in DOMAIN UpperSeq : UpperSeq[i] = c]
    ELSE c

UpperChar(c) ==
    IF \E i \in DOMAIN LowerSeq : LowerSeq[i] = c
    THEN UpperSeq[CHOOSE i \in DOMAIN LowerSeq : LowerSeq[i] = c]
    ELSE c

StrLower(s) == ToSeq([i \in DOMAIN s |-> LowerChar(s[i])])

StrUpper(s) == ToSeq([i \in DOMAIN s |-> UpperChar(s[i])])

\* str.replace(a, b) for single characters
ReplaceChar(s, a, b) == ToSeq([i \in DOMAIN s |-> IF s[i] = a THEN b ELSE s[i]])

\* str.replace(a, "")
RemoveChar(s, a) == SelectSeq(s, LAMBDA c : c # a)

\* str.strip()
Strip(s) ==
    LET inner == {i \in DOMAIN s : s[i] \notin WS}
    IN  IF inner = {} THEN <<>>
        ELSE SubSeq(s, CHOOSE i \in inner : \A j \in inner : i <= j,
                       CHOOSE i \in inner : \A j \in inner : j <= i)

\* str.lstrip()
LStrip(s) ==
    LET inner == {i \in DOMAIN s : s[i] \notin WS}
    IN  IF inner = {} THEN <<>>
        ELSE SubSeq(s, CHOOSE i \in inner : \A j \in inner : i <= j, Len(s))

\* a in b, for strings
IsSubstring(a, b) ==
    \E i \in 1..(Len(b) - Len(a) + 1) : SubSeq(b, i, i + Len(a) - 1) = a

\* ------------------------------------------------------------ re
\* A pattern is a sequence of nodes:
\*   cls   a character class with a repetition {lo,hi} (hi ignored when unb),
\*         greedy or lazy; neg complements the set
\*   open  / close   the boundaries of capturing group g
\*   alt   an ordered alternation of sub-patterns (non-capturing)
\*   eos   $

Cls(set, lo, hi) ==
    [t |-> "cls", neg |-> FALSE, set |-> set, lo |-> lo, hi |-> hi, unb |-> FALSE, greedy |-> TRUE]

Lit(c) == Cls({c}, 1, 1)

One(set) == Cls(set, 1, 1)

Star(set) ==
    [t |-> "cls", neg |-> FALSE, set |-> set, lo |-> 0, hi |-> 0, unb |-> TRUE, greedy |-> TRUE]

Plus(set) ==
    [t |-> "cls", neg |-> FALSE, set |-> set, lo |-> 1, hi |-> 0, unb |-> TRUE, greedy |-> TRUE]

\* [^set]+?
NotPlusLazy(set) ==
    [t |-> "cls", neg |-> TRUE, set |-> set, lo |-> 1, hi |-> 0, unb |-> TRUE, greedy |-> FALSE]

\* .*   (the dot matches anything but a line feed)
DotStar ==
    [t |-> "cls", neg |-> TRUE, set |-> {"NL"}, lo |-> 0, hi |-> 0, unb |-> TRUE, greedy |-> TRUE]

Open(g) == [t |-> "open", g |-> g]

Close(g) == [t |-> "close", g |-> g]

Alt(alts) == [t |-> "alt", alts |-> alts]

Eos == [t |-> "eos"]

\* a literal word, letter by letter
Word(w) == ToSeq([i \in DOMAIN w |-> Lit(w[i])])

\* a literal word under re.IGNORECASE
WordIC(w) == ToSeq([i \in DOMAIN w |-> One({LowerChar(w[i]), UpperChar(w[i])})])

InCls(c, h) == (c \in h.set) # h.neg

\* how many characters of s from position i on are in the class of h, at most cap
RunLen(s, i, h, cap) ==
    LET last == IF Len(s) < i + cap - 1 THEN Len(s) ELSE i + cap - 1
        out == {j \in i..last : ~InCls(s[j], h)}
    IN  IF out = {} THEN last - i + 1
        ELSE (CHOOSE j \in out : \A k \in out : j <= k) - i

NoMatch == [ok |-> FALSE, marks |-> <<>>, end |-> 0]

\* The matcher keeps the ways the pattern can have matched so far, each with
\* the position it has reached and the group boundaries it has passed, in the
\* order in which the backtracking of the re module tries them: alternatives
\* left to right, a greedy repetition longest first, a lazy one shortest first.
\* The match re returns is the first way that gets through the whole pattern.

RECURSIVE Flat(_, _)
Flat(ss, k) == IF k > Len(ss) THEN <<>> ELSE ss[k] \o Flat(ss, k + 1)

\* the repetition counts from h.lo to maxrun, in the order they are tried
Counts(h, th, maxrun) ==
    IF maxrun < h.lo THEN <<>>
    ELSE ToSeq([k \in 1..(maxrun - h.lo + 1) |->
                  [th EXCEPT !.pos = @ + (IF h.greedy THEN maxrun - k + 1 ELSE h.lo + k - 1)]])

StepCls(h, s, th) == Counts(h, th, RunLen(s, th.pos, h, IF h.unb THEN Len(s) ELSE h.hi))

RECURSIVE RunFrom(_, _, _, _)
StepNode(h, s, ths) ==
    CASE h.t = "eos" -> SelectSeq(ths, LAMBDA th : th.pos = Len(s) + 1)
      [] h.t \in {"open", "close"} ->
           ToSeq([k \in DOMAIN ths |->
                    [ths[k] EXCEPT !.marks = Append(@, [t |-> h.t, g |-> h.g, pos |-> ths[k].pos])]])
      [] h.t = "cls" -> Flat([k \in DOMAIN ths |-> StepCls(h, s, ths[k])], 1)
      [] h.t = "alt" ->
           Flat([k \in DOMAIN ths |->
                   Flat([a \in DOMAIN h.alts |-> RunFrom(h.alts[a], 1, s, <<ths[k]>>)], 1)], 1)

RunFrom(pat, k, s, ths) ==
    IF k > Len(pat) \/ ths = <<>> THEN ths
    ELSE RunFrom(pat, k + 1, s, StepNode(pat[k], s, ths))

FirstWay(ths) ==
    IF ths = <<>> THEN NoMatch
    ELSE [ok |-> TRUE, marks |-> ths[1].marks, end |-> ths[1].pos]

MatchAt(pat, s, i) == FirstWay(RunFrom(pat, 1, s, <<[pos |-> i, marks |-> <<>>]>>))

\* pattern.match(s): anchored at the start of s
ReMatch(pat, s) == MatchAt(pat, s, 1)

\* m.group(g)
Group(m, s, g) ==
    LET o == CHOOSE k \in DOMAIN m.marks : m.marks[k].t = "open" /\ m.marks[k].g = g
        c == CHOOSE k \in DOMAIN m.marks : m.marks[k].t = "close" /\ m.marks[k].g = g
    IN  SubSeq(s, m.marks[o].pos, m.marks[c].pos - 1)

\* [m.group(1) for m in pattern.finditer(s)]: the leftmost match from each
\* position on, the next search starting where the match ended
RECURSIVE FindFrom(_, _, _)
FindFrom(at, s, i) ==
    LET starts == {j \in i..Len(s) : at[j].ok}
    IN  IF starts = {} THEN <<>>
        ELSE LET j == CHOOSE j \in starts : \A k \in starts : j <= k
             IN  <<Group(at[j], s, 1)>> \o FindFrom(at, s, at[j].end)

FindIter(pat, s) == FindFrom(ToSeq([j \in 1..Len(s) |-> MatchAt(pat, s, j)]), s, 1)

\* ------------------------------------------------------------ DATE_TIME_PATTERNS

\* \d{1,2}[\/\.\-]\d{1,2}[\/\.\-]\d{ylo,yhi}
DatePart(ylo, yhi) ==
    <<Cls(Digit, 1, 2), One({"/", ".", "-"}), Cls(Digit, 1, 2), One({"/", ".", "-"}),
      Cls(Digit, ylo, yhi)>>

\* \d{1,2}:\d{2}(?::\d{2})?
TimePart == <<Cls(Digit, 1, 2), Lit(":"), Cls(Digit, 2, 2), Alt(<<<<Lit(":"), Cls(Digit, 2, 2)>>, <<>>>>)>>

\* ([^:]+?)\s*:\s(.*)$
AuthorAndText ==
    <<Open(3), NotPlusLazy({":"}), Close(3), Star(WS), Lit(":"), One(WS),
      Open(4), DotStar, Close(4), Eos>>

\* ^\[(date)\s+(time)\]\s+ ...
PatBracket24 ==
    <<Lit("["), Open(1)>> \o DatePart(2, 4) \o <<Close(1), Plus(WS), Open(2)>> \o TimePart
    \o <<Close(2), Lit("]"), Plus(WS)>> \o AuthorAndText

\* ^\[(date)\s+(time\s*(?:AM|PM|am|pm))\]\s+ ...
PatBracket12 ==
    <<Lit("["), Open(1)>> \o DatePart(2, 4) \o <<Close(1), Plus(WS), Open(2)>> \o TimePart
    \o <<Star(WS), Alt(<<Word(<<"A", "M">>), Word(<<"P", "M">>), Word(<<"a", "m">>), Word(<<"p", "m">>)>>),
         Close(2), Lit("]"), Plus(WS)>> \o AuthorAndText

\* ^(date),\s*(time)\s*[–—-]\s* ...    the year is \d{2,4}
PatDash4 ==
    <<Open(1)>> \o DatePart(2, 4) \o <<Close(1), Lit(","), Star(WS), Open(2)>> \o TimePart
    \o <<Close(2), Star(WS), One({"ENDASH", "EMDASH", "-"}), Star(WS)>> \o AuthorAndText

\* ^(date),\s*(time)\s*[–—-]\s* ...    the year is \d{2}
PatDash2 ==
    <<Open(1)>> \o DatePart(2, 2) \o <<Close(1), Lit(","), Star(WS), Open(2)>> \o TimePart
    \o <<Close(2), Star(WS), One({"ENDASH", "EMDASH", "-"}), Star(WS)>> \o AuthorAndText

\* ^(date)\s+(\d{1,2}:\d{2}:\d{2})\s+ ...
PatBare ==
    <<Open(1)>> \o DatePart(2, 4) \o <<Close(1), Plus(WS), Open(2),
      Cls(Digit, 1, 2), Lit(":"), Cls(Digit, 2, 2), Lit(":"), Cls(Digit, 2, 2),
      Close(2), Plus(WS)>> \o AuthorAndText

DATE_TIME_PATTERNS == <<PatBracket24, PatBracket12, PatDash4, PatDash2, PatBare>>

\* the patterns of the list that match the line
MatchingPatterns(line) ==
    {k \in DOMAIN DATE_TIME_PATTERNS : ReMatch(DATE_TIME_PATTERNS[k], line).ok}

\* the loop of parse_chat_text over the list: the first pattern that matches, 0 if none
Least(S) == IF S = {} THEN 0 ELSE CHOOSE k \in S : \A j \in S : k <= j

FirstPattern(line) == Least(MatchingPatterns(line))

\* the normalisation of a raw line: LRM removed, NBSP and NNBSP to spaces, stripped
NormalizeLine(raw) ==
    Strip(ReplaceChar(ReplaceChar(RemoveChar(raw, "LRM"), "NBSP", " "), "NNBSP", " "))

\* ------------------------------------------------------------ parse_datetime
\* datetime.strptime compiles a format into a pattern: a directive becomes a
\* group (1 day, 2 month, 3 year, 4 hour, 5 minute, 6 second, 7 AM/PM), a blank
\* becomes \s+, and the pattern is matched ignoring case.

Grp(g, p) == <<Open(g)>> \o p \o <<Close(g)>>

\* %d   3[0-1]|[1-2]\d|0[1-9]|[1-9]| [1-9]
DirDay ==
    <<Alt(<<<<Lit("3"), One({"0", "1"})>>,
            <<One({"1", "2"}), One(Digit)>>,
            <<Lit("0"), One(Digit \ {"0"})>>,
            <<One(Digit \ {"0"})>>,
            <<Lit(" "), One(Digit \ {"0"})>>>>)>>

\* %m and %I   1[0-2]|0[1-9]|[1-9]
DirTwelve ==
    <<Alt(<<<<Lit("1"), One({"0", "1", "2"})>>,
            <<Lit("0"), One(Digit \ {"0"})>>,
            <<One(Digit \ {"0"})>>>>)>>

\* %H   2[0-3]|[0-1]\d|\d
DirHour24 ==
    <<Alt(<<<<Lit("2"), One({"0", "1", "2", "3"})>>,
            <<One({"0", "1"}), One(Digit)>>,
            <<One(Digit)>>>>)>>

\* %M   [0-5]\d|\d
DirMinute ==
    <<Alt(<<<<One({"0", "1", "2", "3", "4", "5"}), One(Digit)>>, <<One(Digit)>>>>)>>

\* %S   6[0-1]|[0-5]\d|\d
DirSecond ==
    <<Alt(<<<<Lit("6"), One({"0", "1"})>>,
            <<One({"0", "1", "2", "3", "4", "5"}), One(Digit)>>,
            <<One(Digit)>>>>)>>

\* %Y is \d\d\d\d and %y is \d\d
DirYear(y4) == IF y4 THEN <<Cls(Digit, 4, 4)>> ELSE <<Cls(Digit, 2, 2)>>

\* %p   am|pm
DirAmPm == <<Alt(<<WordIC(<<"a", "m">>), WordIC(<<"p", "m">>)>>)>>

\* a format of fmts: day or month first, %Y or %y, with or without :%S, %H or %I ... %p
Fmt(dayfirst, y4, secs, h12) == [dayfirst |-> dayfirst, y4 |-> y4, secs |-> secs, h12 |-> h12]

fmts ==
    <<Fmt(TRUE, TRUE, TRUE, FALSE), Fmt(TRUE, TRUE, FALSE, FALSE),
      Fmt(TRUE, FALSE, TRUE, FALSE), Fmt(TRUE, FALSE, FALSE, FALSE),
      Fmt(FALSE, TRUE, TRUE, FALSE), Fmt(FALSE, TRUE, FALSE, FALSE),
      Fmt(FALSE, FALSE, TRUE, FALSE), Fmt(FALSE, FALSE, FALSE, FALSE),
      Fmt(TRUE, TRUE, TRUE, TRUE), Fmt(TRUE, TRUE, FALSE, TRUE),
      Fmt(TRUE, FALSE, TRUE, TRUE), Fmt(TRUE, FALSE, FALSE, TRUE),
      Fmt(FALSE, TRUE, TRUE, TRUE), Fmt(FALSE, TRUE, FALSE, TRUE),
      Fmt(FALSE, FALSE, TRUE, TRUE), Fmt(FALSE, FALSE, FALSE, TRUE)>>

FmtPattern(f) ==
    (IF f.dayfirst
     THEN Grp(1, DirDay) \o <<Lit("/")>> \o Grp(2, DirTwelve)
     ELSE Grp(2, DirTwelve) \o <<Lit("/")>> \o Grp(1, DirDay))
    \o <<Lit("/")>> \o Grp(3, DirYear(f.y4)) \o <<Plus(WS)>>
    \o Grp(4, IF f.h12 THEN DirTwelve ELSE DirHour24) \o <<Lit(":")>> \o Grp(5, DirMinute)
    \o (IF f.secs THEN <<Lit(":")>> \o Grp(6, DirSecond) ELSE <<>>)
    \o (IF f.h12 THEN <<Plus(WS)>> \o Grp(7, DirAmPm) ELSE <<>>)

IsLeap(y) == (y % 4 = 0 /\ y % 100 # 0) \/ y % 400 = 0

DaysInMonth(y, m) ==
    IF m = 2 THEN (IF IsLeap(y) THEN 29 ELSE 28)
    ELSE IF m \in {4, 6, 9, 11} THEN 30 ELSE 31

\* no datetime: what parse_datetime returns as None
None == <<>>

\* the datetime of the fields found, None when datetime(...) raises ValueError
DatetimeOf(year, month, day, hour, minute, second) ==
    IF year >= 1 /\ day <= DaysInMonth(year, month) /\ second <= 59
    THEN <<year, month, day, hour, minute, second>>
    ELSE None

\* the match m of the format's pattern must take all of s
StrptimeFound(m, s, f) ==
    LET \* %y: 0 to 68 are 2000 to 2068, 69 to 99 are 1969 to 1999
        Century(yraw) == IF yraw < 69 THEN 2000 + yraw ELSE 1900 + yraw
        \* %I with %p: 12 AM is 0, 12 PM is 12
        Hour12(hraw, pm) ==
            IF pm THEN (IF hraw = 12 THEN 12 ELSE hraw + 12) ELSE (IF hraw = 12 THEN 0 ELSE hraw)
    IN
    IF ~m.ok \/ m.end # Len(s) + 1 THEN None
    ELSE DatetimeOf(IF f.y4 THEN NumVal(Group(m, s, 3)) ELSE Century(NumVal(Group(m, s, 3))),
                    NumVal(Group(m, s, 2)),
                    NumVal(LStrip(Group(m, s, 1))),
                    IF f.h12
                    THEN Hour12(NumVal(Group(m, s, 4)), StrLower(Group(m, s, 7)) = <<"p", "m">>)
                    ELSE NumVal(Group(m, s, 4)),
                    NumVal(Group(m, s, 5)),
                    IF f.secs THEN NumVal(Group(m, s, 6)) ELSE 0)

\* datetime.strptime(s, f) as <<year, month, day, hour, minute, second>>, or None
Strptime(s, f) == StrptimeFound(ReMatch(FmtPattern(f), s), s, f)

\* for f in fmts: try: return strptime(...) except: continue
RECURSIVE TryFmts(_, _)
RECURSIVE ReturnOrContinue(_, _, _)
TryFmts(s, k) ==
    IF k > Len(fmts) THEN None ELSE ReturnOrContinue(Strptime(s, fmts[k]), s, k)

ReturnOrContinue(r, s, k) == IF r # None THEN r ELSE TryFmts(s, k + 1)

parse_datetime(date_str, time_str) ==
    LET \* re.sub(r"[.\-]", "/", s)
        SlashSeparators(s) == ReplaceChar(ReplaceChar(s, ".", "/"), "-", "/")
        SpacesForNbsp(s) == ReplaceChar(ReplaceChar(s, "NBSP", " "), "NNBSP", " ")
    IN
    TryFmts(Strip(SpacesForNbsp(SlashSeparators(date_str))) \o <<" ">>
            \o StrUpper(Strip(SpacesForNbsp(time_str))), 1)

\* ts.date(), of None too
DateOf(ts) == IF ts = None THEN None ELSE SubSeq(ts, 1, 3)

\* a.timestamp <= b.timestamp on naive datetimes
RECURSIVE TupleLeq(_, _)
TupleLeq(a, b) ==
    IF a = <<>> THEN TRUE
    ELSE IF Head(a) # Head(b) THEN Head(a) < Head(b)
    ELSE TupleLeq(Tail(a), Tail(b))

\* list.sort(key=lambda m: m.timestamp): stable
RECURSIVE InsertByTimestamp(_, _)
InsertByTimestamp(sorted, m) ==
    IF sorted = <<>> THEN <<m>>
    ELSE IF TupleLeq(sorted[Len(sorted)].timestamp, m.timestamp) THEN Append(sorted, m)
    ELSE Append(InsertByTimestamp(SubSeq(sorted, 1, Len(sorted) - 1), m), sorted[Len(sorted)])

\* a sort forgotten: the messages in the order they came
KeepOrder(ms) == ms

SortByTimestamp(ms) ==
    LET sorted[k \in 0..Len(ms)] ==
            IF k = 0 THEN <<>> ELSE InsertByTimestamp(sorted[k - 1], ms[k])
    IN  sorted[Len(ms)]

\* ------------------------------------------------------------ title and chat_id

\* Path.suffix: from the last dot of the name, when that dot is not its first character
LastDot(name) ==
    IF \E i \in DOMAIN name : name[i] = "."
    THEN CHOOSE i \in DOMAIN name : name[i] = "." /\ \A j \in DOMAIN name : name[j] = "." => j <= i
    ELSE 0

Suffix(name) ==
    IF LastDot(name) > 1 /\ LastDot(name) < Len(name)
    THEN SubSeq(name, LastDot(name), Len(name)) ELSE <<>>

\* Path.stem
Stem(name) == SubSeq(name, 1, Len(name) - Len(Suffix(name)))

\* re.sub(r"^prefix\s+", "", name, flags=re.IGNORECASE)
StripPrefix(prefix, name) ==
    LET m == ReMatch(WordIC(prefix) \o <<Plus(WS)>>, name)
    IN  IF m.ok THEN SubSeq(name, m.end, Len(name)) ELSE name

detect_title_from_txtname(txt_name) ==
    LET ChatWith ==
            <<"W", "h", "a", "t", "s", "A", "p", "p", " ", "C", "h", "a", "t", " ", "w", "i", "t", "h">>
        DiscussionAvec ==
            <<"D", "i", "s", "c", "u", "s", "s", "i", "o", "n", " ", "W", "h", "a", "t", "s", "A",
              "p", "p", " ", "a", "v", "e", "c">>
        DefaultTitle == <<"W", "h", "a", "t", "s", "A", "p", "p", " ", "C", "h", "a", "t">>
        name == ReplaceChar(StripPrefix(DiscussionAvec, StripPrefix(ChatWith, Stem(txt_name))), "_", " ")
    IN  IF name # <<>> THEN name ELSE DefaultTitle

\* re.sub(r"[^a-zA-Z0-9_-]+", "_", s): a run of other characters becomes one underscore
RECURSIVE SlugSub(_, _)
SlugSub(s, inrun) ==
    IF s = <<>> THEN <<>>
    ELSE IF Head(s) \in AsciiLetter \cup Digit \cup {"_", "-"} THEN <<Head(s)>> \o SlugSub(Tail(s), FALSE)
    ELSE (IF inrun THEN <<>> ELSE <<"_">>) \o SlugSub(Tail(s), TRUE)

SlugMax == 80

safe_slug(s) ==
    LET slug == SlugSub(Strip(s), FALSE)
    IN  IF slug # <<>> THEN SubSeq(slug, 1, IF Len(slug) < SlugMax THEN Len(slug) ELSE SlugMax)
        ELSE <<"c", "h", "a", "t">>

\* ------------------------------------------------------------ media

MEDIA_EXTS ==
    [image |-> {<<".", "j", "p", "g">>, <<".", "j", "p", "e", "g">>, <<".", "p", "n", "g">>,
                <<".", "g", "i", "f">>, <<".", "w", "e", "b", "p">>, <<".", "h", "e", "i", "c">>},
     video |-> {<<".", "m", "p", "4">>, <<".", "3", "g", "p">>, <<".", "m", "o", "v">>,
                <<".", "a", "v", "i">>, <<".", "m", "k", "v">>, <<".", "m", "4", "v">>},
     audio |-> {<<".", "o", "p", "u", "s">>, <<".", "o", "g", "g">>, <<".", "m", "p", "3">>,
                <<".", "w", "a", "v">>, <<".", "m", "4", "a">>},
     doc |-> {<<".", "p", "d", "f">>, <<".", "t", "x", "t">>, <<".", "v", "c", "f">>,
              <<".", "c", "s", "v">>, <<".", "d", "o", "c">>, <<".", "d", "o", "c", "x">>,
              <<".", "x", "l", "s">>, <<".", "x", "l", "s", "x">>, <<".", "z", "i", "p">>}]

ALL_MEDIA_EXTS == MEDIA_EXTS.image \cup MEDIA_EXTS.video \cup MEDIA_EXTS.audio \cup MEDIA_EXTS.doc

MEDIA_OMITTED_TOKENS ==
    {<<"<", "M", "e", "d", "i", "a", " ", "o", "m", "i", "t", "t", "e", "d", ">">>,
     <<"<", "M", "eacute", "d", "i", "a", " ", "o", "m", "i", "s", ">">>,
     <<"<", "M", "eacute", "d", "i", "a", " ", "o", "m", "i", "s", "e", ">">>,
     <<"i", "m", "a", "g", "e", " ", "o", "m", "i", "t", "t", "e", "d">>,
     <<"v", "i", "d", "e", "o", " ", "o", "m", "i", "t", "t", "e", "d">>,
     <<"i", "m", "a", "g", "e", " ", "o", "m", "i", "s", "e">>,
     <<"v", "i", "d", "e", "o", " ", "o", "m", "i", "s", "e">>}

classify_ext(name) ==
    LET ext == StrLower(Suffix(name))
    IN  IF ext \in MEDIA_EXTS.image THEN "image"
        ELSE IF ext \in MEDIA_EXTS.video THEN "video"
        ELSE IF ext \in MEDIA_EXTS.audio THEN "audio"
        ELSE "doc"

AlNum == AsciiLetter \cup Digit

\* ([A-Za-z0-9_-]+-\d{8}-WA\d+\.[A-Za-z0-9]{1,5})
filename_pat ==
    <<Open(1), Plus(AlNum \cup {"_", "-"}), Lit("-"), Cls(Digit, 8, 8), Lit("-"), Lit("W"), Lit("A"),
      Plus(Digit), Lit("."), Cls(AlNum, 1, 5), Close(1)>>

\* ([\w.\-]+\.(?:jpg|jpeg|png|...|docx?|xlsx?|zip)) with re.IGNORECASE; the \w of
\* a str pattern is a letter of any script, a digit or the underscore
generic_file_pat ==
    <<Open(1), Plus(Range(UpperSeq) \cup Range(LowerSeq) \cup Digit \cup {"_", ".", "-"}), Lit("."),
      Alt(<<WordIC(<<"j", "p", "g">>), WordIC(<<"j", "p", "e", "g">>), WordIC(<<"p", "n", "g">>),
            WordIC(<<"g", "i", "f">>), WordIC(<<"m", "p", "4">>), WordIC(<<"3", "g", "p">>),
            WordIC(<<"m", "o", "v">>), WordIC(<<"a", "v", "i">>), WordIC(<<"m", "k", "v">>),
            WordIC(<<"m", "4", "v">>), WordIC(<<"o", "p", "u", "s">>), WordIC(<<"o", "g", "g">>),
            WordIC(<<"m", "p", "3">>), WordIC(<<"w", "a", "v">>), WordIC(<<"m", "4", "a">>),
            WordIC(<<"p", "d", "f">>), WordIC(<<"w", "e", "b", "p">>), WordIC(<<"h", "e", "i", "c">>),
            WordIC(<<"d", "o", "c">>) \o <<Cls({"x", "X"}, 0, 1)>>,
            WordIC(<<"x", "l", "s">>) \o <<Cls({"x", "X"}, 0, 1)>>,
            WordIC(<<"z", "i", "p">>)>>),
      Close(1)>>

\* .*-(\d{8})-WA\d+\.[A-Za-z0-9]{1,5}$
date_from_name ==
    <<DotStar, Lit("-"), Open(1), Cls(Digit, 8, 8), Close(1), Lit("-"), Lit("W"), Lit("A"),
      Plus(Digit), Lit("."), Cls(AlNum, 1, 5), Eos>>

\* the set files_in_text that the first loop of link_attachments builds for a text
FilesInText(text) ==
    Range(FindIter(filename_pat, text)) \cup Range(FindIter(generic_file_pat, text))

\* datetime.strptime(digits, "%Y%m%d").date() as <<year, month, day>>, or None
StrptimeYmdFound(m, digits) ==
    IF ~m.ok \/ m.end # Len(digits) + 1 THEN None
    ELSE DateOf(DatetimeOf(NumVal(Group(m, digits, 3)), NumVal(Group(m, digits, 2)),
                           NumVal(LStrip(Group(m, digits, 1))), 0, 0, 0))

StrptimeYmd(digits) ==
    StrptimeYmdFound(ReMatch(Grp(3, DirYear(TRUE)) \o Grp(2, DirTwelve) \o Grp(1, DirDay), digits),
                     digits)

\* the date a file name encodes for the date heuristic, or None
DateOfNameFound(m, fname) == IF m.ok THEN StrptimeYmd(Group(m, fname, 1)) ELSE None

DateOfName(fname) == DateOfNameFound(ReMatch(date_from_name, fname), fname)

\* text_l empty or holding one of the tokens, lower-cased
IsPlaceholderText(text) ==
    LET text_l == StrLower(Strip(text))
    IN  text_l = <<>> \/ \E tok \in MEDIA_OMITTED_TOKENS : IsSubstring(StrLower(tok), text_l)

\* ------------------------------------------------------------ archives
\* An uploaded archive: whether zipfile can open and extract it, and its files
\* in the order rglob lists them. A file has the directory it lies in below the
\* extraction directory (empty, or ending in "/"), its name, its size, and for a
\* transcript what its bytes decode as ("utf8", "utf16", or "bad" for bytes that
\* none of the codecs decodes) and its lines.

EndsWithTxt(name) ==
    Len(name) >= 4 /\ SubSeq(name, Len(name) - 3, Len(name)) = <<".", "t", "x", "t">>

\* detect_txt_file: glob("*.txt") + glob("**/*.txt"), sorted by size, largest
\* first (the sort is stable); the index of the first, 0 when there is none
detect_txt_file(files) ==
    LET idx == ToSeq([k \in DOMAIN files |-> k])
        txts == SelectSeq(idx, LAMBDA k : files[k].dir = <<>> /\ EndsWithTxt(files[k].name))
                \o SelectSeq(idx, LAMBDA k : EndsWithTxt(files[k].name))
    IN  IF txts = <<>> THEN 0
        ELSE txts[CHOOSE k \in DOMAIN txts :
                    /\ \A j \in DOMAIN txts : files[txts[j]].size <= files[txts[k]].size
                    /\ \A j \in 1..(k - 1) : files[txts[j]].size < files[txts[k]].size]

Encodings == <<"utf-8-sig", "utf-16", "utf-8">>

\* whether txt_path.read_text(encoding=enc) returns
Decodes(f, enc) ==
    \/ f.enc = "utf8" /\ enc \in {"utf-8-sig", "utf-8"}
    \/ f.enc = "utf16" /\ enc = "utf-16"

\* the loop over the encodings finds one: data is not None
Readable(f) == \E k \in DOMAIN Encodings : Decodes(f, Encodings[k])

\* ------------------------------------------------------------ records

Message(ts, author, text) ==
    [timestamp |-> ts, author |-> author, text |-> text, attachments |-> <<>>]

Attachment(relpath, kind, filename) ==
    [relpath |-> relpath, kind |-> kind, filename |-> filename]

Conversation(chat_id, title, messages, base_dir) ==
    [chat_id |-> chat_id, title |-> title, messages |-> messages, base_dir |-> base_dir]

\* ------------------------------------------------------------ inputs
\* Header lines in the formats the comments of DATE_TIME_PATTERNS name, the files
\* of an exported archive, and the archives a user can upload.

\* [date time] author: body
Bracketed(date, time, author, body) ==
    <<"[">> \o date \o <<" ">> \o time \o <<"]", " ">> \o author \o <<":", " ">> \o body

\* date, time - author: body
Dashed(date, time, dash, author, body) ==
    date \o <<",", " ">> \o time \o <<" ", dash, " ">> \o author \o <<":", " ">> \o body

\* date time author: body
Bare(date, time, author, body) ==
    date \o <<" ">> \o time \o <<" ">> \o author \o <<":", " ">> \o body

\* the dates, times, authors, bodies and file names the pools are made of
Txt ==
    [Mar5 |-> <<"5", "/", "3", "/", "2", "0", "2", "4">>,
     Mar6 |-> <<"6", "/", "3", "/", "2", "0", "2", "4">>,
     Mar5Short |-> <<"0", "5", ".", "0", "3", ".", "2", "4">>,
     Mar5Dash |-> <<"0", "5", "-", "0", "3", "-", "2", "0", "2", "4">>,
     Mar6Short |-> <<"6", "/", "3", "/", "2", "4">>,
     At0905 |-> <<"9", ":", "0", "5">>,
     At1000 |-> <<"1", "0", ":", "0", "0">>,
     At1430 |-> <<"1", "4", ":", "3", "0">>,
     At080000 |-> <<"0", "8", ":", "0", "0", ":", "0", "0">>,
     Bob |-> <<"B", "o", "b">>,
     AB |-> <<"A", " ", "B">>,
     Hi |-> <<"h", "i">>,
     ReX |-> <<"r", "e", ":", " ", "x">>,
     ChatTxt |-> <<"_", "c", "h", "a", "t", ".", "t", "x", "t">>,
     Img1 |-> <<"I", "-", "2", "0", "2", "4", "0", "3", "0", "5", "-", "W", "A", "1", ".", "j", "p", "g">>,
     Img2 |-> <<"I", "-", "2", "0", "2", "4", "0", "3", "0", "5", "-", "W", "A", "2", ".", "j", "p", "g">>,
     Pdf |-> <<"a", ".", "p", "d", "f">>,
     MediaOmitted |-> <<"<", "M", "e", "d", "i", "a", " ", "o", "m", "i", "t", "t", "e", "d", ">">>]

Sample(fmt, text) == [fmt |-> fmt, text |-> text]

File(dir, name, size, enc, flines) ==
    [dir |-> dir, name |-> name, size |-> size, enc |-> enc, lines |-> flines]

MediaFile(dir, name) == File(dir, name, 1, "bin", <<>>)

Zip(files) == [zip_ok |-> TRUE, files |-> files]

\* the sequences over S of length at most n
SeqsUpTo(S, n) == UNION {[1..k -> S] : k \in 0..n}

\* the sequences over S of length at most n that repeat no element
DistinctSeqsUpTo(S, n) ==
    {q \in SeqsUpTo(S, n) : \A a, b \in DOMAIN q : q[a] = q[b] => a = b}

ParseLinePool ==
    {Bracketed(Txt.Mar5, Txt.At1000, Txt.Bob, Txt.Hi),
     Dashed(Txt.Mar5Short, Txt.At0905, "-", Txt.AB, Txt.ReX),
     Bracketed(Txt.Mar5, <<"2", ":", "3", "0", "P", "M">>, Txt.Bob, <<"y", "o">>),
     <<"LRM">> \o Bare(Txt.Mar6, Txt.At080000, Txt.Bob, <<"NBSP", "o", "k">>),
     <<" ", "m", "o", "r", "e", ":", "t", "e", "x", "t", "NBSP">>,
     <<"l", "a", "s", "t">>,
     <<>>}

LinkLinePool ==
    {Bracketed(Txt.Mar5, Txt.At1000, Txt.Bob, Txt.MediaOmitted),
     Bracketed(Txt.Mar5, Txt.At0905, Txt.Bob, Txt.Img1),
     Bracketed(Txt.Mar6, Txt.At0905, Txt.Bob, Txt.MediaOmitted),
     Bracketed(Txt.Mar5, Txt.At1430, Txt.AB, <<"s", "e", "e", " ">> \o Txt.Pdf \o <<" ">> \o Txt.Img1),
     Bracketed(Txt.Mar5, Txt.At1000, Txt.AB, <<"a", "n", " ", "I", "m", "a", "g", "e", " ", "o", "m", "i", "t", "t", "e", "d", "!">>),
     Bracketed(Txt.Mar5, Txt.At1430, Txt.Bob, Txt.Hi)}

LinkMediaPool ==
    {MediaFile(<<>>, Txt.Img1), MediaFile(<<"m", "/">>, Txt.Img2), MediaFile(<<>>, Txt.Pdf)}

ClassifyPool ==
    LET SampleDates4 == {Txt.Mar5, Txt.Mar5Dash}
        SampleDates2 == {Txt.Mar5Short, Txt.Mar6Short}
        SampleTimes == {Txt.At0905, Txt.At1430, Txt.At080000}
        SampleAuthors == {Txt.Bob, Txt.AB}
        SampleBodies == {Txt.Hi, Txt.ReX}
    IN
    {Sample(1, Bracketed(d, t, a, b)) :
        d \in SampleDates4 \cup SampleDates2, t \in SampleTimes, a \in SampleAuthors, b \in SampleBodies}
    \cup
    {Sample(2, Bracketed(d, t \o m, a, b)) :
        d \in SampleDates4 \cup SampleDates2, t \in SampleTimes,
        m \in {<<" ", "P", "M">>, <<"a", "m">>}, a \in SampleAuthors, b \in SampleBodies}
    \cup
    {Sample(3, Dashed(d, t, h, a, b)) :
        d \in SampleDates4, t \in SampleTimes, h \in {"-", "ENDASH"}, a \in SampleAuthors,
        b \in SampleBodies}
    \cup
    {Sample(4, Dashed(d, t, h, a, b)) :
        d \in SampleDates2, t \in SampleTimes, h \in {"-", "ENDASH"}, a \in SampleAuthors,
        b \in SampleBodies}
    \cup
    {Sample(5, Bare(d, Txt.At080000, a, b)) :
        d \in SampleDates4 \cup SampleDates2, a \in SampleAuthors, b \in SampleBodies}
    \cup
    {Sample(0, l) : l \in {Txt.Hi, Txt.ReX, <<"[">> \o Dashed(Txt.Mar5, Txt.At0905, "-", Txt.Bob, Txt.Hi),
                            Bare(Txt.Mar5, Txt.At0905, Txt.Bob, Txt.Hi), <<>>}}

BadZip == [zip_ok |-> FALSE, files |-> <<>>]

NoTxtZip == Zip(<<MediaFile(<<>>, Txt.Img1)>>)

UndecodableZip == Zip(<<File(<<>>, Txt.ChatTxt, 3, "bad", <<>>)>>)

\* messages at 9:05 and 14:30 on 5 March; the chat_id is a_b
ChatA ==
    Zip(<<File(<<>>, <<"a", "_", "b", ".", "t", "x", "t">>, 2, "utf8",
               <<Bracketed(Txt.Mar5, Txt.At0905, Txt.Bob, Txt.Img1), Bracketed(Txt.Mar5, Txt.At1430, Txt.AB, Txt.Hi)>>),
          MediaFile(<<>>, Txt.Img1)>>)

\* a message at 10:00 on 5 March; the chat_id is a_b too
ChatB ==
    Zip(<<File(<<"d", "/">>, <<"a", ".", "b", ".", "t", "x", "t">>, 1, "utf16",
               <<Bracketed(Txt.Mar5, Txt.At1000, Txt.Bob, Txt.MediaOmitted)>>),
          MediaFile(<<"d", "/">>, Txt.Img1)>>)

\* two .txt files, the transcript the larger one; its lines are out of order
ChatC ==
    Zip(<<File(<<>>, <<"x", ".", "t", "x", "t">>, 1, "utf8", <<Txt.Hi>>),
          File(<<>>, <<"c", ".", "t", "x", "t">>, 2, "utf8",
               <<Txt.Hi, Bracketed(Txt.Mar6, Txt.At0905, Txt.Bob, Txt.Hi), <<"l", "a", "s", "t">>,
                 Bracketed(Txt.Mar5, Txt.At1000, Txt.Bob, Txt.Hi)>>)>>)

ArchivePool == {BadZip, NoTxtZip, UndecodableZip, ChatA, ChatB, ChatC}

\* ------------------------------------------------------------ one line, one text
\* What the code computes from a line and from the text of a message depends
\* on nothing else, so for the lines and texts of the
\* pools above it is computed once and looked up afterwards.

\* the body of the loop of parse_chat_text up to the new Message: the
\* normalised line, whether a pattern matches it, and then what
\* parse_datetime returns, the author and the text
HeaderFound(line, m) ==
    [line |-> line, header |-> TRUE,
     parsed |-> parse_datetime(Group(m, line, 1), Group(m, line, 2)),
     author |-> Strip(Group(m, line, 3)),
     text |-> Strip(Group(m, line, 4))]

ParseWith(line, k) ==
    IF k = 0
    THEN [line |-> line, header |-> FALSE, parsed |-> None, author |-> <<>>, text |-> <<>>]
    ELSE HeaderFound(line, ReMatch(DATE_TIME_PATTERNS[k], line))

ParseNormalized(line) == ParseWith(line, FirstPattern(line))

ParseLine(raw) == ParseNormalized(NormalizeLine(raw))

\* what link_attachments reads off the text of a message
ScanText(text) == [files |-> FilesInText(text), placeholder |-> IsPlaceholderText(text)]

PoolFiles == UNION {Range(a.files) : a \in ArchivePool} \cup LinkMediaPool

LineTable ==
    {<<raw, ParseLine(raw)>> :
        raw \in ParseLinePool \cup LinkLinePool \cup UNION {Range(f.lines) : f \in PoolFiles}}

Lookup(table, key) == (CHOOSE e \in table : e[1] = key)[2]

LineInfo(raw) ==
    IF \E e \in LineTable : e[1] = raw THEN Lookup(LineTable, raw) ELSE ParseLine(raw)

TextTable == {<<e[2].text, ScanText(e[2].text)>> : e \in {e \in LineTable : e[2].header}}

TextInfo(text) ==
    IF \E e \in TextTable : e[1] = text THEN Lookup(TextTable, text) ELSE ScanText(text)

\* ------------------------------------------------------------ state

VARIABLES
    uploaded,     \* the archives of the file uploader, in order
    ui,           \* the position of the loop "for uf in uploaded"
    pc,           \* where the script is
    warnings,     \* the uploads st.warning was called for
    now,          \* the last reading of the wall clock
    lines,        \* parse_chat_text: data.splitlines()
    li,           \*   the position of "for raw in lines"
    messages,     \*   messages
    current,      \*   current: <<>> for None, else <<the message>>
    title,        \*   title
    conv,         \* load_zip: conv, <<>> before it is built
    media_files,  \* link_attachments: media_files, in insertion order
    assigned,     \*   assigned
    mi,           \*   the position of "for msg in conv.messages"
    convs,        \* convs, in insertion order
    cline,        \* a line handed to the patterns of DATE_TIME_PATTERNS
    cmatched      \* the patterns that matched it

vars == <<uploaded, ui, pc, warnings, now, lines, li, messages, current, title,
          conv, media_files, assigned, mi, convs, cline, cmatched>>

parseVars == <<lines, li, messages, current, title>>

linkVars == <<media_files, assigned, mi>>

classVars == <<cline, cmatched>>

\* ------------------------------------------------------------ load_zip

Archive == uploaded[ui]

\* zipfile.BadZipFile not caught: the run of the script ends
LoadZipBadRaises ==
    /\ pc = "loop" /\ ui <= Len(uploaded)
    /\ ~Archive.zip_ok
    /\ pc' = "crashed"
    /\ UNCHANGED <<uploaded, ui, warnings, now, parseVars, conv, linkVars, convs, classVars>>

\* zipfile.BadZipFile: warning, return None; the loop goes on to the next upload
LoadZipBad ==
    /\ pc = "loop" /\ ui <= Len(uploaded)
    /\ ~Archive.zip_ok
    /\ warnings' = Append(warnings, ui)
    /\ ui' = ui + 1
    /\ UNCHANGED <<uploaded, pc, now, parseVars, conv, linkVars, convs, classVars>>

\* no .txt in the archive: warning, return None
LoadZipNoTxt ==
    /\ pc = "loop" /\ ui <= Len(uploaded)
    /\ Archive.zip_ok
    /\ detect_txt_file(Archive.files) = 0
    /\ warnings' = Append(warnings, ui)
    /\ ui' = ui + 1
    /\ UNCHANGED <<uploaded, pc, now, parseVars, conv, linkVars, convs, classVars>>

\* parse_chat_text raises RuntimeError: nothing between it and the top of the
\* script catches it, so the run of the script ends here
LoadZipUndecodable ==
    /\ pc = "loop" /\ ui <= Len(uploaded)
    /\ Archive.zip_ok
    /\ detect_txt_file(Archive.files) # 0
    /\ ~Readable(Archive.files[detect_txt_file(Archive.files)])
    /\ pc' = "crashed"
    /\ UNCHANGED <<uploaded, ui, warnings, now, parseVars, conv, linkVars, convs, classVars>>

\* the transcript is read: parse_chat_text up to its loop over the lines
LoadZipRead ==
    /\ pc = "loop" /\ ui <= Len(uploaded)
    /\ Archive.zip_ok
    /\ detect_txt_file(Archive.files) # 0
    /\ LET txt == Archive.files[detect_txt_file(Archive.files)]
       IN  /\ Readable(txt)
           /\ lines' = txt.lines
           /\ title' = detect_title_from_txtname(txt.name)
    /\ messages' = <<>>
    /\ current' = <<>>
    /\ li' = 1
    /\ pc' = "parse"
    /\ UNCHANGED <<uploaded, ui, warnings, now, conv, linkVars, convs, classVars>>

\* ------------------------------------------------------------ parse_chat_text

Line == LineInfo(lines[li])

\* if current: messages.append(current)
EmitCurrent(msgs, cur) == msgs \o cur

\* the line appended without the line feed
AppendLineNoNewline(text, line) == text \o line

\* current.text += "\n" + line
AppendLine(text, line) == text \o <<"NL">> \o line

\* the readings the wall clock can give after the reading last
NowPool == {<<2026, 11, 5, 9, 0, 0>>, <<2026, 11, 5, 9, 0, 1>>}

ClockAfter(last) == {n \in NowPool : TupleLeq(last, n)}

\* a header whose date and time no format resolves is skipped
StartMessageIfResolved(parsed, n, author, text) ==
    IF parsed = None THEN <<>> ELSE <<Message(parsed, author, text)>>

\* ts = parse_datetime(...) or dt.datetime.now(); current = Message(ts, ...)
StartMessage(parsed, n, author, text) ==
    <<Message(IF parsed = None THEN n ELSE parsed, author, text)>>

\* a line that one of the patterns matches: a new message starts
ParseHeader ==
    /\ pc = "parse" /\ li <= Len(lines)
    /\ Line.header
    /\ \E n \in (IF Line.parsed = None THEN ClockAfter(now) ELSE {now}) :
         /\ now' = n
         /\ messages' = EmitCurrent(messages, current)
         /\ current' = StartMessage(Line.parsed, n, Line.author, Line.text)
    /\ li' = li + 1
    /\ UNCHANGED <<uploaded, ui, pc, warnings, lines, title, conv, linkVars, convs, classVars>>

\* a line that no pattern matches, after a header: it continues the message
ParseContinuation ==
    /\ pc = "parse" /\ li <= Len(lines)
    /\ ~Line.header
    /\ current # <<>>
    /\ current' = <<[current[1] EXCEPT !.text = AppendLine(@, Line.line)]>>
    /\ li' = li + 1
    /\ UNCHANGED <<uploaded, ui, pc, warnings, now, lines, messages, title, conv, linkVars,
                   convs, classVars>>

\* a line that no pattern matches, before any header: dropped
ParseDiscard ==
    /\ pc = "parse" /\ li <= Len(lines)
    /\ ~Line.header
    /\ current = <<>>
    /\ li' = li + 1
    /\ UNCHANGED <<uploaded, ui, pc, warnings, now, lines, messages, current, title, conv,
                   linkVars, convs, classVars>>

\* the end of the lines: the last message, the sort, and load_zip builds conv
ParseEnd ==
    /\ pc = "parse" /\ li > Len(lines)
    /\ messages' = SortByTimestamp(EmitCurrent(messages, current))
    /\ conv' = <<Conversation(safe_slug(title), title, messages', ui)>>
    /\ pc' = "catalog"
    /\ UNCHANGED <<uploaded, ui, warnings, now, lines, li, current, title, linkVars, convs,
                   classVars>>

\* ------------------------------------------------------------ link_attachments

\* media_files[p.name] = p over the files rglob lists: a name seen again keeps
\* its place in the dict and takes the later path
RECURSIVE Catalog(_)
Catalog(files) ==
    IF files = <<>> THEN <<>>
    ELSE LET before == Catalog(SubSeq(files, 1, Len(files) - 1))
             f == files[Len(files)]
             entry == [name |-> f.name, relpath |-> f.dir \o f.name]
         IN  IF StrLower(Suffix(f.name)) \notin ALL_MEDIA_EXTS THEN before
             ELSE IF \E k \in DOMAIN before : before[k].name = f.name
             THEN ToSeq([k \in DOMAIN before |-> IF before[k].name = f.name THEN entry ELSE before[k]])
             ELSE Append(before, entry)

CatalogNames(mf) == {mf[k].name : k \in DOMAIN mf}

EntryOf(mf, fname) == mf[CHOOSE k \in DOMAIN mf : mf[k].name = fname]

BuildCatalog ==
    /\ pc = "catalog"
    /\ media_files' = Catalog(Archive.files)
    /\ assigned' = [fname \in CatalogNames(media_files') |-> FALSE]
    /\ mi' = 1
    /\ pc' = "text"
    /\ UNCHANGED <<uploaded, ui, warnings, now, parseVars, conv, convs, classVars>>

\* the test of assigned[fname] left out
TextClaimableIgnoringAssigned(mf, asg, fname) == fname \in CatalogNames(mf)

\* p and not assigned[fname], in the loop over the names found in the text
TextClaimable(mf, asg, fname) == fname \in CatalogNames(mf) /\ ~asg[fname]

\* the orders in which a loop over a set can visit it
Orderings(S) ==
    {o \in [1..Cardinality(S) -> S] : \A a, b \in 1..Cardinality(S) : o[a] = o[b] => a = b}

AttachmentOf(mf, fname) == Attachment(EntryOf(mf, fname).relpath, classify_ext(fname), fname)

\* one message of the first loop: the names found in its text
TextPass ==
    /\ pc = "text" /\ mi <= Len(conv[1].messages)
    /\ LET msg == conv[1].messages[mi]
           hits == {fname \in TextInfo(msg.text).files : TextClaimable(media_files, assigned, fname)}
       IN  /\ \E order \in Orderings(hits) :
                conv' = <<[conv[1] EXCEPT !.messages[mi].attachments =
                             @ \o [k \in DOMAIN order |-> AttachmentOf(media_files, order[k])]]>>
           /\ assigned' = [fname \in DOMAIN assigned |-> assigned[fname] \/ fname \in hits]
    /\ mi' = mi + 1
    /\ UNCHANGED <<uploaded, ui, pc, warnings, now, parseVars, media_files, convs, classVars>>

TextPassEnd ==
    /\ pc = "text" /\ mi > Len(conv[1].messages)
    /\ mi' = 1
    /\ pc' = "date"
    /\ UNCHANGED <<uploaded, ui, warnings, now, parseVars, conv, media_files, assigned, convs,
                   classVars>>

\* the test of text_l left out
DateEligibleAnyText(msg) == msg.attachments = <<>>

\* if msg.attachments: continue, and the test of text_l
DateEligible(msg) == msg.attachments = <<>> /\ TextInfo(msg.text).placeholder

\* the test of assigned.get(fname) left out
DateClaimableIgnoringAssigned(asg, fname, msg) ==
    /\ DateOfName(fname) # None
    /\ DateOfName(fname) = DateOf(msg.timestamp)

\* the comparison with the date of the message left out
DateClaimableAnyDate(asg, fname, msg) ==
    /\ ~asg[fname]
    /\ DateOfName(fname) # None

\* not assigned.get(fname), the name gives a date, and it is the message's
DateClaimable(asg, fname, msg) ==
    /\ ~asg[fname]
    /\ DateOfName(fname) # None
    /\ DateOfName(fname) = DateOf(msg.timestamp)

\* the first entry of media_files the date loop attaches, 0 when there is none
FirstDateMatch(mf, asg, msg) ==
    IF \E k \in DOMAIN mf : DateClaimable(asg, mf[k].name, msg)
    THEN CHOOSE k \in DOMAIN mf :
            /\ DateClaimable(asg, mf[k].name, msg)
            /\ \A j \in 1..(k - 1) : ~DateClaimable(asg, mf[j].name, msg)
    ELSE 0

\* one message of the second loop: the date heuristic
DatePass ==
    /\ pc = "date" /\ mi <= Len(conv[1].messages)
    /\ LET msg == conv[1].messages[mi]
           k == IF DateEligible(msg) THEN FirstDateMatch(media_files, assigned, msg) ELSE 0
       IN  IF k = 0
           THEN UNCHANGED <<conv, assigned>>
           ELSE /\ conv' = <<[conv[1] EXCEPT !.messages[mi].attachments =
                                Append(@, AttachmentOf(media_files, media_files[k].name))]>>
                /\ assigned' = [assigned EXCEPT ![media_files[k].name] = TRUE]
    /\ mi' = mi + 1
    /\ UNCHANGED <<uploaded, ui, pc, warnings, now, parseVars, media_files, convs, classVars>>

\* link_attachments returns, and load_zip returns conv
DatePassEnd ==
    /\ pc = "date" /\ mi > Len(conv[1].messages)
    /\ pc' = "merge"
    /\ UNCHANGED <<uploaded, ui, warnings, now, parseVars, conv, linkVars, convs, classVars>>

\* ------------------------------------------------------------ the loop over the uploads

\* convs[chat_id].messages.extend(...) and .sort(...), or convs[chat_id] = conv
MergeInto(cs, c) ==
    IF \E k \in DOMAIN cs : cs[k].chat_id = c.chat_id
    THEN ToSeq([k \in DOMAIN cs |->
                  IF cs[k].chat_id = c.chat_id
                  THEN [cs[k] EXCEPT !.messages = SortByTimestamp(@ \o c.messages)]
                  ELSE cs[k]])
    ELSE Append(cs, c)

MergeConv ==
    /\ pc = "merge"
    /\ convs' = MergeInto(convs, conv[1])
    /\ conv' = <<>>
    /\ ui' = ui + 1
    /\ pc' = "loop"
    /\ UNCHANGED <<uploaded, warnings, now, parseVars, linkVars, classVars>>

\* every upload has been loaded
LoopEnd ==
    /\ pc = "loop" /\ ui > Len(uploaded)
    /\ pc' = "done"
    /\ UNCHANGED <<uploaded, ui, warnings, now, parseVars, conv, linkVars, convs, classVars>>

\* ------------------------------------------------------------ the classifier alone

Classify ==
    /\ pc = "classify"
    /\ cmatched' = MatchingPatterns(NormalizeLine(cline.text))
    /\ pc' = "classified"
    /\ UNCHANGED <<uploaded, ui, warnings, now, parseVars, conv, linkVars, convs, cline>>

\* the state when the script starts on one of the uploads given
InitWith(ups, startpc, samples) ==
    /\ uploaded \in ups
    /\ ui = 1
    /\ pc = startpc
    /\ warnings = <<>>
    /\ now = <<2026, 11, 5, 9, 0, 0>>
    /\ lines = <<>>
    /\ li = 1
    /\ messages = <<>>
    /\ current = <<>>
    /\ title = <<>>
    /\ conv = <<>>
    /\ media_files = <<>>
    /\ assigned = <<>>
    /\ mi = 1
    /\ convs = <<>>
    /\ cline \in samples
    /\ cmatched = {}

\* ------------------------------------------------------------ SpecParse
\* parse_chat_text on the transcript of one archive

MaxLines == 3

InitParse ==
    InitWith({<<Zip(<<File(<<>>, Txt.ChatTxt, 1, "utf8", ls)>>)>> : ls \in SeqsUpTo(ParseLinePool, MaxLines)},
             "loop", {Sample(0, <<>>)})

NextParse ==
    \/ LoadZipRead
    \/ ParseHeader
    \/ ParseContinuation
    \/ ParseDiscard
    \/ ParseEnd

SpecParse == InitParse /\ [][NextParse]_vars

\* ------------------------------------------------------------ SpecLink
\* link_attachments on the conversation of one archive

MaxLinkLines == 2

MaxMedia == 2

InitLink ==
    InitWith({<<Zip(<<File(<<>>, Txt.ChatTxt, 1, "utf8", ls)>> \o media)>> :
                ls \in SeqsUpTo(LinkLinePool, MaxLinkLines),
                media \in DistinctSeqsUpTo(LinkMediaPool, MaxMedia)},
             "loop", {Sample(0, <<>>)})

NextLink ==
    \/ LoadZipRead
    \/ ParseHeader
    \/ ParseEnd
    \/ BuildCatalog
    \/ TextPass
    \/ TextPassEnd
    \/ DatePass
    \/ DatePassEnd

SpecLink == InitLink /\ [][NextLink]_vars

\* ------------------------------------------------------------ SpecClassify
\* the patterns of DATE_TIME_PATTERNS on one line: a sample of each format the
\* list supports (fmt 1 to 5, in the order of the list), and other lines (fmt 0)

InitClassify == InitWith({<<>>}, "classify", ClassifyPool)

NextClassify == Classify

SpecClassify == InitClassify /\ [][NextClassify]_vars

\* ------------------------------------------------------------ Spec
\* the script on a batch of uploads

MaxUploads == 3

Init == InitWith(SeqsUpTo(ArchivePool, MaxUploads), "loop", {Sample(0, <<>>)})

Next ==
    \/ LoadZipBad
    \/ LoadZipNoTxt
    \/ LoadZipUndecodable
    \/ LoadZipRead
    \/ ParseHeader
    \/ ParseContinuation
    \/ ParseDiscard
    \/ ParseEnd
    \/ BuildCatalog
    \/ TextPass
    \/ TextPassEnd
    \/ DatePass
    \/ DatePassEnd
    \/ MergeConv
    \/ LoopEnd

Spec == Init /\ [][Next]_vars

\* ------------------------------------------------------------ properties

\* the messages of the conversation load_zip is building
Msgs == IF conv = <<>> THEN <<>> ELSE conv[1].messages

\* the file names attached to a message
AttachedTo(msg) == {msg.attachments[k].filename : k \in DOMAIN msg.attachments}

\* the catalogued file names the text of a message refers to
ReferredTo(msg) == TextInfo(msg.text).files \cap CatalogNames(media_files)

Sorted(ms) == \A i, j \in DOMAIN ms : i < j => TupleLeq(ms[i].timestamp, ms[j].timestamp)

Count(seq, x) == Cardinality({k \in DOMAIN seq : seq[k] = x})

\* C1: from the first loop of link_attachments to its return, no file name of
\* the catalog is attached to two messages, or twice to one message.
C1_AttachedAtMostOnce ==
    \A i, j \in DOMAIN Msgs :
      \A a \in DOMAIN Msgs[i].attachments, b \in DOMAIN Msgs[j].attachments :
        Msgs[i].attachments[a].filename = Msgs[j].attachments[b].filename => i = j /\ a = b

\* link_attachments has returned; a file attached to one message bears the
\* date of another message that the date loop looked at
C1_Witness ==
    /\ pc = "merge"
    /\ \E i, j \in DOMAIN Msgs :
         /\ i # j
         /\ TextInfo(Msgs[j].text).placeholder
         /\ \E fname \in AttachedTo(Msgs[i]) : DateOfName(fname) = DateOf(Msgs[j].timestamp)

\* C2: the messages are in non-decreasing order of timestamp when
\* parse_chat_text returns, in the conversation load_zip builds, and in every
\* conversation of convs after each merge; the archives with messages at 9:05
\* and 14:30 and with a message at 10:00, in either order, give one
\* conversation in the order 9:05, 10:00, 14:30.
C2_MessagesSorted ==
    /\ pc = "catalog" => Sorted(messages)
    /\ Sorted(Msgs)
    /\ \A k \in DOMAIN convs : Sorted(convs[k].messages)
    /\ (pc = "done" /\ uploaded \in {<<ChatA, ChatB>>, <<ChatB, ChatA>>}) =>
          /\ Len(convs) = 1
          /\ [k \in DOMAIN convs[1].messages |-> convs[1].messages[k].timestamp]
             = <<<<2024, 3, 5, 9, 5, 0>>, <<2024, 3, 5, 10, 0, 0>>, <<2024, 3, 5, 14, 30, 0>>>>

\* the archive with the message at 10:00 came first and the other was merged into it
C2_Witness ==
    /\ pc = "done"
    /\ uploaded = <<ChatB, ChatA>>
    /\ Len(convs) = 1
    /\ Len(convs[1].messages) = 3

\* the bodies the claim C3 describes, for the lines ls after the bodies acc
RECURSIVE BodiesOf(_, _)
BodiesOf(ls, acc) ==
    IF ls = <<>> THEN acc
    ELSE IF LineInfo(Head(ls)).header
         THEN BodiesOf(Tail(ls), Append(acc, LineInfo(Head(ls)).text))
    ELSE IF acc = <<>> THEN BodiesOf(Tail(ls), acc)
    ELSE BodiesOf(Tail(ls),
                  [acc EXCEPT ![Len(acc)] = @ \o <<"NL">> \o LineInfo(Head(ls)).line])

MessageTexts == [k \in DOMAIN messages |-> messages[k].text]

\* C3: when parse_chat_text returns, the texts of its messages are, for each
\* header line, the text of the header followed by each line up to the next
\* header, each after one line feed and in the order of the stream; the lines
\* before the first header are in no text.
C3_ContinuationBodies ==
    pc = "catalog" =>
        /\ Len(messages) = Len(BodiesOf(lines, <<>>))
        /\ \A x \in Range(BodiesOf(lines, <<>>)) :
              Count(MessageTexts, x) = Count(BodiesOf(lines, <<>>), x)

\* a line before the first header was dropped and a line after it was appended
C3_Witness ==
    /\ pc = "catalog"
    /\ Len(lines) = 3
    /\ ~LineInfo(lines[1]).header /\ LineInfo(lines[1]).line # <<>>
    /\ LineInfo(lines[2]).header
    /\ ~LineInfo(lines[3]).header
    /\ Len(messages) = 1
    /\ "NL" \in Range(messages[1].text)

\* C4: a transcript that no encoding decodes does not end the run of the
\* script: the loop goes on with the other archives.
C4_UndecodableConfined == pc # "crashed"

\* load_zip returns None for the archive: it cannot be opened, or holds no .txt
FailsToLoad(a) == ~a.zip_ok \/ detect_txt_file(a.files) = 0

ChatIdOf(a) == safe_slug(detect_title_from_txtname(a.files[detect_txt_file(a.files)].name))

C6_FirstReferenceWins ==
    pc \in {"date", "merge"} =>
        \A j \in DOMAIN Msgs : \A fname \in ReferredTo(Msgs[j]) :
            fname \in AttachedTo(Msgs[j]) <=> \A i \in 1..(j - 1) : fname \notin ReferredTo(Msgs[i])

\* two messages refer to the same catalogued file; the first one has it
C6_Witness ==
    /\ pc = "merge"
    /\ \E i, j \in DOMAIN Msgs :
         /\ i < j
         /\ \E fname \in ReferredTo(Msgs[i]) \cap ReferredTo(Msgs[j]) : fname \in AttachedTo(Msgs[i])

\* the catalogued files with the date of the message that no message has claimed
FreeOfDate(msg) ==
    {fname \in CatalogNames(media_files) :
        ~assigned[fname] /\ DateOfName(fname) = DateOf(msg.timestamp)}

\* C7: when the date loop comes to a message whose text is exactly a
\* placeholder phrase, the message gets a file if and only if a catalogued
\* file with the date of the message is not yet claimed by a message; the file
\* it gets is such a file, and is claimed from then on.
C7_PlaceholderDateFallback ==
    [][(pc = "date" /\ mi <= Len(Msgs) /\ Msgs[mi].text \in MEDIA_OMITTED_TOKENS) =>
          IF FreeOfDate(Msgs[mi]) = {}
          THEN conv'[1].messages[mi].attachments = <<>> /\ assigned' = assigned
          ELSE /\ Len(conv'[1].messages[mi].attachments) = 1
               /\ conv'[1].messages[mi].attachments[1].filename \in FreeOfDate(Msgs[mi])
               /\ assigned'[conv'[1].messages[mi].attachments[1].filename]]_vars

\* two placeholder messages of one day: one got the file of that day, the
\* other came after every file of that day was claimed
C7_Witness ==
    /\ pc = "merge"
    /\ \E i, j \in DOMAIN Msgs :
         /\ Msgs[i].text \in MEDIA_OMITTED_TOKENS /\ Msgs[j].text \in MEDIA_OMITTED_TOKENS
         /\ DateOf(Msgs[i].timestamp) = DateOf(Msgs[j].timestamp)
         /\ Msgs[i].attachments # <<>>
         /\ Msgs[j].attachments = <<>>

\* the date loop attaches a file to the message it is at
DateLoopAttaches ==
    /\ pc = "date" /\ mi <= Len(Msgs)
    /\ conv'[1].messages[mi].attachments # conv[1].messages[mi].attachments

\* msg.text.strip().lower()
TextL(msg) == StrLower(Strip(msg.text))

\* C8 as the specification states it: the date loop attaches a file only to a
\* message without attachment whose trimmed text is empty or is one of the
\* placeholder phrases, and attaches one file.
C8_BodyIsPlaceholder ==
    [][DateLoopAttaches =>
          /\ Msgs[mi].attachments = <<>>
          /\ \/ TextL(Msgs[mi]) = <<>>
             \/ TextL(Msgs[mi]) \in {StrLower(tok) : tok \in MEDIA_OMITTED_TOKENS}
          /\ Len(conv'[1].messages[mi].attachments) = 1]_vars

\* C8: the date loop attaches a file only to a message without attachment
\* whose trimmed, lower-cased text is empty or contains one of the placeholder
\* phrases, with or without other text around it, and attaches one file.
C8_BodyContainsPlaceholder ==
    [][DateLoopAttaches =>
          /\ Msgs[mi].attachments = <<>>
          /\ \/ TextL(Msgs[mi]) = <<>>
             \/ \E tok \in MEDIA_OMITTED_TOKENS : IsSubstring(StrLower(tok), TextL(Msgs[mi]))
          /\ Len(conv'[1].messages[mi].attachments) = 1]_vars

\* a message with text around a placeholder phrase got a file from the date loop
C8_Witness ==
    /\ pc = "merge"
    /\ \E i \in DOMAIN Msgs :
         /\ Msgs[i].attachments # <<>>
         /\ ReferredTo(Msgs[i]) = {}
         /\ Msgs[i].text \notin MEDIA_OMITTED_TOKENS
         /\ \E tok \in MEDIA_OMITTED_TOKENS : IsSubstring(StrLower(tok), TextL(Msgs[i]))

\* the lines among the first n that a pattern matches
HeaderLines(n) == {k \in 1..n : LineInfo(lines[k]).header}

\* those of them whose date and time no format resolves
UnresolvedLines(n) == {k \in HeaderLines(n) : LineInfo(lines[k]).parsed = None}

\* C9: every line a pattern matches gives one message, also when
\* parse_datetime returns None for it: the message then has a reading of the
\* clock as timestamp. During the loop the messages and the current one are as
\* many as the header lines read, and parse_chat_text returns as many messages
\* as the stream has header lines.
C9_EveryHeaderOneMessage ==
    /\ pc = "parse" => Len(messages) + Len(current) = Cardinality(HeaderLines(li - 1))
    /\ pc = "catalog" =>
          /\ Len(messages) = Cardinality(HeaderLines(Len(lines)))
          /\ Cardinality({k \in DOMAIN messages : messages[k].timestamp \in NowPool})
             = Cardinality(UnresolvedLines(Len(lines)))

\* a header whose time no format resolves, between two other headers
C9_Witness ==
    /\ pc = "catalog"
    /\ UnresolvedLines(Len(lines)) # {}
    /\ Len(messages) = 3
    /\ messages[3].timestamp \in NowPool

\* C10: a line of one of the five formats is matched by exactly one pattern
\* of DATE_TIME_PATTERNS, and no line is matched by a pattern with brackets
\* and by one without.
C10_ExactlyOnePattern ==
    pc = "classified" =>
        /\ cline.fmt # 0 => Cardinality(cmatched) = 1
        /\ ~(cmatched \cap {1, 2} # {} /\ cmatched \cap {3, 4, 5} # {})

\* the relative paths of the catalogued files under the directory the upload
\* at position dir was extracted to
FilesUnder(dir) == {e.relpath : e \in Range(Catalog(uploaded[dir].files))}

\* C11: when the loop over the uploads has ended, in every conversation of
\* convs the relpath of every attachment of every message is the path of a
\* catalogued file under the base_dir of that conversation, merged
\* conversations included.
C11_AttachmentsUnderBaseDir ==
    pc = "done" =>
        \A c \in DOMAIN convs : \A m \in DOMAIN convs[c].messages :
            \A a \in DOMAIN convs[c].messages[m].attachments :
                convs[c].messages[m].attachments[a].relpath \in FilesUnder(convs[c].base_dir)

====
